---- MODULE Spec2Model ----
(***************************************************************************)
(* Repository monitoring workflow (src/src/workflow.py) and its MCP        *)
(* variant (src/mcp_trial/src/workflow.py).                                *)
(*                                                                         *)
(* One cycle is one call of run(initial_state).  The compiled StateGraph   *)
(* executes in supersteps: the nodes triggered by the edges of one step    *)
(* run in the next step, the nodes of one step run in any order, and each  *)
(* node mutates the state object it is handed and returns it.  A node that *)
(* raises ends the run with the exception.                                 *)
(*                                                                         *)
(* Spec starts at a call of run() on a fresh or rehydrated state.          *)
(* DriverSpec starts at the process: main() of src/main.py or of           *)
(* src/mcp_trial/main.py loads config.yaml and runs one cycle (--once) or  *)
(* one cycle after another on the configured interval.                     *)
(*                                                                         *)
(* Time is counted in hours; every node reads the clock when it runs.      *)
(* None is modelled as NoTime.  A notification identifier                  *)
(* "<kind>_<ISO timestamp>" is the record [kind, at].                      *)
(***************************************************************************)
EXTENDS Integers, Sequences, FiniteSets, TLC

\* ------------------------------------------------------------------ bounds
MaxIssues  == 2      \* longest list of open issues the Data Source returns
MaxPRs     == 2      \* longest list of pull requests the Data Source holds
MaxTicks   == 1      \* hours the clock may advance after the start
MaxHistory == 1      \* notifications a rehydrated state may already hold

\* --------------------------------------------------------------- constants
HoursPerDay        == 24    \* timedelta.days: whole days of a time difference
DefaultLookback    == 24    \* get_recent_prs(lookback_hours=24)
Now0               == 240   \* wall clock (hours) at the start
NoTime             == -1    \* None for Optional[datetime]
NoCode             == -1    \* the process has not exited
CheckInterval      == 1     \* configured check_interval_hours

Variants   == {"direct", "mcp"}
Thresholds == {2}               \* configured issue_threshold_days

Nodes == {"fetch_data", "analyze_issues", "analyze_prs",
          "send_issue_alert", "send_pr_notification", "update_state"}

\* ------------------------------------------------------------ domain model
\* Issue.age_days: (datetime.now() - created_at).days, floor to whole days
age_days(created_at, t) == (t - created_at) \div HoursPerDay

\* PullRequest.is_merged: merged_at is not None
is_merged(pr) == pr.merged_at # NoTime

\* creation times an issue may carry: on and next to the day boundary that
\* the threshold tests, at the start of the cycle
CreatedChoices ==
    { Now0 - 2 * HoursPerDay,         \* exactly two days old
      Now0 - 2 * HoursPerDay + 1,     \* one hour short of two days
      Now0 - HoursPerDay }            \* exactly one day old

\* merged_at / closed_at pairs a pull request may carry; the edge of the
\* lookback window is inside the window at Now0 and outside it an hour later
PRTimeChoices ==
    { <<NoTime, NoTime>>,                                    \* still open
      <<Now0 - DefaultLookback, Now0 - DefaultLookback>>,    \* merged, on the edge
      <<NoTime, Now0 - DefaultLookback>> }                   \* closed unmerged, on the edge

RECURSIVE SeqsUpTo(_, _)
SeqsUpTo(S, n) ==
    IF n = 0 THEN { <<>> }
    ELSE LET shorter == SeqsUpTo(S, n - 1)
         IN  shorter \cup { Append(s, x) : s \in { q \in shorter : Len(q) = n - 1 }, x \in S }

\* the i-th element fetched carries number i
IssueLists ==
    { [i \in 1..Len(cs) |-> [number |-> i, created_at |-> cs[i]]]
      : cs \in SeqsUpTo(CreatedChoices, MaxIssues) }

PRLists ==
    { [i \in 1..Len(ps) |-> [number |-> i, merged_at |-> ps[i][1], closed_at |-> ps[i][2]]]
      : ps \in SeqsUpTo(PRTimeChoices, MaxPRs) }

\* identifiers a rehydrated state carries from an earlier cycle, sent at hour 0
NotificationIds == { [kind |-> "issue_alert", at |-> 0] }
Histories == SeqsUpTo(NotificationIds, MaxHistory)

\* ------------------------------------------------------------------- state
VARIABLES
    variant,         \* which workflow class runs the cycle
    state,           \* the RepoMonitorState / MCPRepoMonitorState object
    now,             \* datetime.now(), in hours
    phase,           \* "START", "running", "END" or "raised"
    active,          \* nodes of the current superstep that have not run yet
    triggered,       \* nodes triggered for the next superstep
    github_session,  \* MCPClient.github_session is connected
    email_session,   \* MCPClient.email_session is connected
    source,          \* what the Data Source did in fetch_data
    sink_calls,      \* calls the Notification Sink received, in order
    trace,           \* nodes executed in this cycle, with the state they returned
    error,           \* where the exception that left run() was raised, or "none"
    start,           \* the state run() was called with
    pr_bodies,       \* pull request notifications the send stage has built
    config,          \* the content of config.yaml
    mode,            \* how the process was started: "once", "scheduled", or
                     \* "api" when run() is called by other code
    proc,            \* where the driver stands
    exit_code,       \* exit code of the process, NoCode while it runs
    report,          \* what run_monitoring_cycle printed on its way out, NoReport
                     \* while a cycle runs
    due              \* when the next scheduled cycle is due, NoTime if none

vars == <<variant, state, now, phase, active, triggered, github_session,
          email_session, source, sink_calls, trace, error, start, pr_bodies,
          config, mode, proc, exit_code, report, due>>

\* what the stages of the workflow never write
driver_vars == <<config, mode, proc, exit_code, report, due>>

\* RepoMonitorState(...) as the drivers construct it, or rehydrated with the
\* notification history of earlier cycles
InitialState(cfg, history) ==
    [ repo_owner                  |-> "owner",
      repo_name                   |-> "repo",
      issue_threshold_days        |-> cfg.issue_threshold_days,
      email_recipients            |-> cfg.recipients,
      open_issues                 |-> <<>>,
      recent_prs                  |-> <<>>,
      last_email_sent             |-> IF history = <<>> THEN NoTime ELSE 0,
      sent_notifications          |-> history,
      should_send_issue_alert     |-> FALSE,
      should_send_pr_notification |-> FALSE,
      alert_issues                |-> <<>>,
      notification_prs            |-> <<>> ]

\* a config.yaml that passes every check; a field named in not_int holds a
\* value that is not an integer
ValidConfig(thr) ==
    [ issue_threshold_days |-> thr,
      check_interval_hours |-> CheckInterval,
      pr_lookback_hours    |-> DefaultLookback,
      recipients           |-> 1,          \* number of recipients
      not_int              |-> {} ]

\* run_monitoring_cycle prints "Emails sent: <n>" after a completed cycle and
\* "Error during monitoring cycle" when it caught an exception
NoCount  == -1
NoReport == [outcome |-> "none", emails_sent |-> NoCount, cause |-> "none"]

NoSource == [issues |-> "not_called", prs |-> "not_called", pulls |-> <<>>, at |-> NoTime]

Init ==
    /\ variant \in Variants
    /\ \E thr \in Thresholds, history \in Histories :
          /\ state = InitialState(ValidConfig(thr), history)
          /\ config = ValidConfig(thr)
    /\ now = Now0
    /\ phase = "START"
    /\ active = {}
    /\ triggered = {}
    /\ github_session = FALSE
    /\ email_session = FALSE
    /\ source = NoSource
    /\ sink_calls = <<>>
    /\ trace = <<>>
    /\ error = "none"
    /\ start = state
    /\ pr_bodies = <<>>
    /\ mode = "api"
    /\ proc = "cycle"
    /\ exit_code = NoCode
    /\ report = NoReport
    /\ due = NoTime

\* ---------------------------------------------------------------- the graph
\* add_edge / add_conditional_edges of _create_workflow
should_send_issue_alert_always(st) == "send_alert"

should_send_issue_alert(st) ==
    IF st.should_send_issue_alert THEN "send_alert" ELSE "skip"

should_send_pr_notification(st) ==
    IF st.should_send_pr_notification THEN "send_notification" ELSE "skip"

IssueRouteMap_swapped(label) ==
    IF label = "send_alert" THEN "update_state" ELSE "send_issue_alert"

IssueRouteMap(label) ==
    IF label = "send_alert" THEN "send_issue_alert" ELSE "update_state"

PRRouteMap_swapped(label) ==
    IF label = "send_notification" THEN "update_state" ELSE "send_pr_notification"

PRRouteMap(label) ==
    IF label = "send_notification" THEN "send_pr_notification" ELSE "update_state"

\* the nodes an executed node triggers, given the state it returned
Successors_retry_send(node, st) ==
    CASE node = "fetch_data"           -> {"analyze_issues", "analyze_prs"}
      [] node = "analyze_issues"       -> {IssueRouteMap(should_send_issue_alert(st))}
      [] node = "analyze_prs"          -> {PRRouteMap(should_send_pr_notification(st))}
      [] node = "send_issue_alert"     -> IF st.sent_notifications = <<>>
                                          THEN {"send_issue_alert"}
                                          ELSE {"update_state"}
      [] node = "send_pr_notification" -> {"update_state"}
      [] node = "update_state"         -> {}

Successors(node, st) ==
    CASE node = "fetch_data"           -> {"analyze_issues", "analyze_prs"}
      [] node = "analyze_issues"       -> {IssueRouteMap(should_send_issue_alert(st))}
      [] node = "analyze_prs"          -> {PRRouteMap(should_send_pr_notification(st))}
      [] node = "send_issue_alert"     -> {"update_state"}
      [] node = "send_pr_notification" -> {"update_state"}
      [] node = "update_state"         -> {}      \* END

\* node has run at time t and returned st: record it, trigger its successors, and start
\* the next superstep once the current one is exhausted
Completes_no_barrier(node, t, st) ==
    LET next == (active \ {node}) \cup Successors(node, st)
    IN  /\ state' = st
        /\ trace' = Append(trace, [node |-> node, at |-> t, post |-> st])
        /\ error' = error
        /\ active' = next
        /\ triggered' = {}
        /\ phase' = IF next = {} THEN "END" ELSE "running"

Completes(node, t, st) ==
    LET rest == active \ {node}
        next == triggered \cup Successors(node, st)
    IN  /\ state' = st
        /\ trace' = Append(trace, [node |-> node, at |-> t, post |-> st])
        /\ error' = error
        /\ IF rest # {}
           THEN /\ active' = rest
                /\ triggered' = next
                /\ phase' = "running"
           ELSE /\ active' = next
                /\ triggered' = {}
                /\ phase' = IF next = {} THEN "END" ELSE "running"

Raises_swallowed(where) ==
    /\ error' = where
    /\ phase' = "running"
    /\ active' = {}
    /\ triggered' = {}

\* a node raised: invoke() propagates the exception to the caller of run()
Raises(where) ==
    /\ error' = where
    /\ phase' = "raised"
    /\ active' = {}
    /\ triggered' = {}

\* ----------------------------------------------------------- collaborators
\* GitHubClient.get_recent_prs: of the repository's pulls, those merged, or
\* closed without a merge, at or after now - lookback_hours
in_lookback_strict(pr, lookback_time) ==
    \/ (pr.merged_at # NoTime /\ pr.merged_at > lookback_time)
    \/ (pr.closed_at # NoTime /\ pr.closed_at > lookback_time /\ pr.merged_at = NoTime)

in_lookback(pr, lookback_time) ==
    \/ (pr.merged_at # NoTime /\ pr.merged_at >= lookback_time)
    \/ (pr.closed_at # NoTime /\ pr.closed_at >= lookback_time /\ pr.merged_at = NoTime)

get_recent_prs_all_pulls(pulls, t, lookback_hours) == pulls

get_recent_prs(pulls, t, lookback_hours) ==
    SelectSeq(pulls, LAMBDA pr : in_lookback(pr, t - lookback_hours))

\* MCPClient.get_open_issues / get_recent_prs: a failed tool call is caught
\* and an empty list returned
mcp_get(outcome, content) == IF outcome = "ok" THEN content ELSE <<>>

\* MCPClient.send_email(self, to, subject, body, html_body=None) and the
\* keywords the MCP send nodes call it with
SendEmailParams   == {"to", "subject", "body", "html_body"}
SendEmailRequired == {"to", "subject", "body"}
SendEmailKeywords == {"recipients", "subject", "body"}

\* Python binds a keyword call iff every keyword names a parameter and every
\* parameter without a default is given; otherwise the call raises TypeError
CallBinds(keywords, params, required) ==
    keywords \subseteq params /\ required \subseteq keywords

\* ------------------------------------------------------------- node bodies
\* _fetch_data_node once both client calls have returned
fetch_data_node_resets_threshold(st, issues, prs) ==
    [st EXCEPT !.open_issues = issues, !.recent_prs = prs,
               !.issue_threshold_days = 7]

fetch_data_node(st, issues, prs) ==
    [st EXCEPT !.open_issues = issues, !.recent_prs = prs]

exceeds_threshold_strict(issue, thr, t) == age_days(issue.created_at, t) > thr

exceeds_threshold(issue, thr, t) == age_days(issue.created_at, t) >= thr

\* len(...) > 0, the value both analyses give their flag
has_items_more_than_one(list) == Len(list) > 1

has_items(list) == Len(list) > 0

\* the loop of _analyze_issues_node: the fetched issues, in order, whose
\* age_days is at least the threshold
select_alert_issues_reversed(st, t) ==
    LET kept == SelectSeq(st.open_issues,
                    LAMBDA issue : exceeds_threshold(issue, st.issue_threshold_days, t))
    IN  [i \in 1..Len(kept) |-> kept[Len(kept) + 1 - i]]

select_alert_issues(st, t) ==
    SelectSeq(st.open_issues,
        LAMBDA issue : exceeds_threshold(issue, st.issue_threshold_days, t))

analyze_issues_node_suppresses_repeat(st, t) ==
    LET alert_issues ==
            IF st.sent_notifications # <<>> THEN <<>>
            ELSE SelectSeq(st.open_issues,
                    LAMBDA issue : exceeds_threshold(issue, st.issue_threshold_days, t))
    IN  [st EXCEPT !.alert_issues = alert_issues,
                   !.should_send_issue_alert = Len(alert_issues) > 0]

analyze_issues_node(st, t) ==
    LET alert_issues == select_alert_issues(st, t)
    IN  [st EXCEPT !.alert_issues = alert_issues,
                   !.should_send_issue_alert = has_items(alert_issues)]

is_reportable_merged_only(pr) == is_merged(pr)

is_reportable(pr) == is_merged(pr) \/ pr.closed_at # NoTime

\* the loop of _analyze_prs_node
select_notification_prs_mcp_keeps_all(st) ==
    IF variant = "mcp" THEN st.recent_prs ELSE SelectSeq(st.recent_prs, is_reportable)

select_notification_prs(st) == SelectSeq(st.recent_prs, is_reportable)

analyze_prs_node_clears_alerts(st) ==
    LET notification_prs == select_notification_prs(st)
    IN  [st EXCEPT !.notification_prs = notification_prs,
                   !.should_send_pr_notification = has_items(notification_prs),
                   !.alert_issues = <<>>,
                   !.should_send_issue_alert = FALSE]

analyze_prs_node(st) ==
    LET notification_prs == select_notification_prs(st)
    IN  [st EXCEPT !.notification_prs = notification_prs,
                   !.should_send_pr_notification = has_items(notification_prs)]

\* f"issue_alert_{datetime.now().isoformat()}"
NotificationId(kind, t) == [kind |-> kind, at |-> t]

send_issue_alert_node_ignores_result(st, success, t) ==
    [st EXCEPT !.sent_notifications = Append(@, NotificationId("issue_alert", t))]

send_issue_alert_node(st, success, t) ==
    IF success
    THEN [st EXCEPT !.sent_notifications = Append(@, NotificationId("issue_alert", t))]
    ELSE st

send_pr_notification_node_wrong_kind(st, success, t) ==
    IF success
    THEN [st EXCEPT !.sent_notifications = Append(@, NotificationId("issue_alert", t))]
    ELSE st

send_pr_notification_node(st, success, t) ==
    IF success
    THEN [st EXCEPT !.sent_notifications = Append(@, NotificationId("pr_notification", t))]
    ELSE st

update_state_node_no_timestamp(st, t) ==
    [st EXCEPT !.should_send_issue_alert = FALSE,
               !.should_send_pr_notification = FALSE,
               !.alert_issues = <<>>,
               !.notification_prs = <<>>]

\* "Reset workflow flags" at the end of _update_state_node
reset_workflow_flags_keeps_lists(st) ==
    [st EXCEPT !.should_send_issue_alert = FALSE,
               !.should_send_pr_notification = FALSE]

reset_workflow_flags(st) ==
    [st EXCEPT !.should_send_issue_alert = FALSE,
               !.should_send_pr_notification = FALSE,
               !.alert_issues = <<>>,
               !.notification_prs = <<>>]

\* "if state.sent_notifications: state.last_email_sent = datetime.now()"
stamp_last_email_sent_toggling(st, t) ==
    [st EXCEPT !.last_email_sent = IF @ = NoTime THEN t ELSE NoTime]

stamp_last_email_sent(st, t) ==
    [st EXCEPT !.last_email_sent = IF st.sent_notifications # <<>> THEN t ELSE @]

update_state_node(st, t) == reset_workflow_flags(stamp_last_email_sent(st, t))

\* ----------------------------------------------------------------- actions
\* run(initial_state): the MCP variant connects both servers first
Run ==
    /\ phase = "START"
    /\ IF variant = "direct"
       THEN /\ phase' = "running"
            /\ active' = {"fetch_data"}
            /\ UNCHANGED <<github_session, email_session, error>>
       ELSE \E github_ok \in BOOLEAN, email_ok \in BOOLEAN :
               /\ github_session' = github_ok
               /\ email_session' = (github_ok /\ email_ok)
               /\ IF github_ok /\ email_ok
                  THEN phase' = "running" /\ active' = {"fetch_data"} /\ error' = error
                  ELSE phase' = "raised" /\ active' = {} /\ error' = "connect"
    /\ UNCHANGED <<variant, state, now, triggered, source, sink_calls, trace, start>>
    /\ UNCHANGED <<pr_bodies, driver_vars>>

\* datetime.now() as a node may read it: not earlier than any earlier reading
Clock == now .. (Now0 + MaxTicks)

\* RepoMonitorWorkflow._fetch_data_node: either client call may raise
FetchDataDirect ==
    /\ phase = "running" /\ variant = "direct" /\ "fetch_data" \in active
    /\ \E t \in Clock :
       /\ now' = t
       /\ \/ /\ source' = [NoSource EXCEPT !.issues = "raised"]
             /\ Raises("fetch_data")
             /\ UNCHANGED <<state, trace>>
          \/ \E issues \in IssueLists :
               \/ /\ source' = [NoSource EXCEPT !.issues = "ok", !.prs = "raised"]
                  /\ state' = [state EXCEPT !.open_issues = issues]
                  /\ Raises("fetch_data")
                  /\ UNCHANGED trace
               \/ \E pulls \in PRLists :
                  /\ source' = [issues |-> "ok", prs |-> "ok", pulls |-> pulls, at |-> t]
                  /\ Completes("fetch_data", t,
                        fetch_data_node(state, issues,
                            get_recent_prs(pulls, t, config.pr_lookback_hours)))
    /\ UNCHANGED <<variant, github_session, email_session, sink_calls, start>>
    /\ UNCHANGED <<pr_bodies, driver_vars>>

\* MCPRepoMonitorWorkflow._fetch_data_node: the client swallows tool failures;
\* the node reads no clock (the window is cut where the tool runs)
FetchDataMCP ==
    /\ phase = "running" /\ variant = "mcp" /\ "fetch_data" \in active
    /\ IF ~github_session
       THEN /\ Raises("fetch_data")
            /\ UNCHANGED <<state, trace, source>>
       ELSE \E io \in {"ok", "failed"}, po \in {"ok", "failed"} :
            \E issues \in (IF io = "ok" THEN IssueLists ELSE {<<>>}),
               pulls \in (IF po = "ok" THEN PRLists ELSE {<<>>}) :
               /\ source' = [issues |-> io, prs |-> po, pulls |-> pulls, at |-> now]
               /\ Completes("fetch_data", now,
                     fetch_data_node(state, mcp_get(io, issues), mcp_get(po, pulls)))
    /\ UNCHANGED <<variant, now, github_session, email_session, sink_calls, start>>
    /\ UNCHANGED <<pr_bodies, driver_vars>>

AnalyzeIssues ==
    /\ phase = "running" /\ "analyze_issues" \in active
    /\ \E t \in Clock :
       /\ now' = t
       /\ Completes("analyze_issues", t, analyze_issues_node(state, t))
    /\ UNCHANGED <<variant, github_session, email_session, source, sink_calls, start>>
    /\ UNCHANGED <<pr_bodies, driver_vars>>

\* _analyze_prs_node reads no clock: its entry carries the last reading
AnalyzePRs ==
    /\ phase = "running" /\ "analyze_prs" \in active
    /\ Completes("analyze_prs", now, analyze_prs_node(state))
    /\ UNCHANGED <<variant, now, github_session, email_session, source, sink_calls, start>>
    /\ UNCHANGED <<pr_bodies, driver_vars>>

\* the body of the send node named node, after the sink returned success
send_node_replaces_history(node, st, success, t) ==
    IF success
    THEN [st EXCEPT !.sent_notifications =
                        <<NotificationId(IF node = "send_issue_alert"
                                         THEN "issue_alert" ELSE "pr_notification", t)>>]
    ELSE st

send_node(node, st, success, t) ==
    IF node = "send_issue_alert"
    THEN send_issue_alert_node(st, success, t)
    ELSE send_pr_notification_node(st, success, t)

\* the status the notification shows for a pull request: the Jinja template
\* of EmailService._create_pr_notification_content
pr_status_template_closed_first(pr) ==
    IF pr.closed_at # NoTime THEN "closed"
    ELSE IF pr.merged_at # NoTime THEN "merged" ELSE "open"

pr_status_template(pr) ==
    IF pr.merged_at # NoTime THEN "merged"
    ELSE IF pr.closed_at # NoTime THEN "closed" ELSE "open"

\* status = "merged" if pr.is_merged else "closed" in the MCP send node
pr_status_mcp(pr) == IF is_merged(pr) THEN "merged" ELSE "closed"

pr_status(pr) ==
    IF variant = "direct" THEN pr_status_template(pr) ELSE pr_status_mcp(pr)

\* the body of a pull request notification: one entry per pull request handed
\* to the send stage, in order
pr_notification_body(prs) ==
    [i \in 1..Len(prs) |-> [number |-> prs[i].number, status |-> pr_status(prs[i])]]

\* pr_bodies after a send stage has built the content of its notification
built_bodies(kind, items) ==
    IF kind = "pr_notification"
    THEN Append(pr_bodies, [prs |-> items, lines |-> pr_notification_body(items)])
    ELSE pr_bodies

\* what one delivery attempt does: it goes through, or the connection, TLS
\* negotiation, login or transmission raises
DeliveryOutcomes == {"sent", "failed"}

\* EmailService._send_email: the whole session is inside one try block whose
\* handler returns False
EmailService_send_email_propagates(delivery) ==
    IF delivery = "sent" THEN "True" ELSE "raised"

EmailService_send_email(delivery) ==
    IF delivery = "sent" THEN "True" ELSE "False"

\* MCPClient.send_email with a connected session: the tool call is inside a
\* try block whose handler returns False
MCPClient_send_email(delivery) ==
    IF delivery = "sent" THEN "True" ELSE "False"

SinkCall(kind, items, delivery, result, t) ==
    [kind |-> kind, items |-> items, success |-> (result = "True"), at |-> t,
     delivery |-> delivery, result |-> result]

\* EmailService.send_issue_alert / send_pr_notification return what
\* _send_email returns
SendDirect(node, kind, items) ==
    /\ phase = "running" /\ variant = "direct" /\ node \in active
    /\ pr_bodies' = built_bodies(kind, items)
    /\ \E t \in Clock, delivery \in DeliveryOutcomes :
          LET result == EmailService_send_email(delivery)
          IN  /\ now' = t
              /\ sink_calls' = Append(sink_calls, SinkCall(kind, items, delivery, result, t))
              /\ IF result = "raised"
                 THEN Raises(node) /\ UNCHANGED <<state, trace>>
                 ELSE Completes(node, t, send_node(node, state, result = "True", t))
    /\ UNCHANGED <<variant, github_session, email_session, source, start, driver_vars>>

\* the MCP send nodes call mcp_client.send_email(recipients=..., ...)
SendMCP(node, kind, items) ==
    /\ phase = "running" /\ variant = "mcp" /\ node \in active
    /\ pr_bodies' = built_bodies(kind, items)
    /\ \E t \in Clock :
       /\ now' = t
       /\ IF ~CallBinds(SendEmailKeywords, SendEmailParams, SendEmailRequired)
             \/ ~email_session
          THEN /\ Raises(node)     \* TypeError / RuntimeError leaves the node
               /\ UNCHANGED <<state, trace, sink_calls>>
          ELSE \E delivery \in DeliveryOutcomes :
                  LET result == MCPClient_send_email(delivery)
                  IN  /\ sink_calls' = Append(sink_calls,
                                          SinkCall(kind, items, delivery, result, t))
                      /\ IF result = "raised"
                         THEN Raises(node) /\ UNCHANGED <<state, trace>>
                         ELSE Completes(node, t, send_node(node, state, result = "True", t))
    /\ UNCHANGED <<variant, github_session, email_session, source, start, driver_vars>>

SendIssueAlertDirect ==
    SendDirect("send_issue_alert", "issue_alert", state.alert_issues)

SendPRNotificationDirect ==
    SendDirect("send_pr_notification", "pr_notification", state.notification_prs)

SendIssueAlertMCP ==
    SendMCP("send_issue_alert", "issue_alert", state.alert_issues)

SendPRNotificationMCP ==
    SendMCP("send_pr_notification", "pr_notification", state.notification_prs)

UpdateState ==
    /\ phase = "running" /\ "update_state" \in active
    /\ \E t \in Clock :
       /\ now' = t
       /\ Completes("update_state", t, update_state_node(state, t))
    /\ UNCHANGED <<variant, github_session, email_session, source, sink_calls, start>>
    /\ UNCHANGED <<pr_bodies, driver_vars>>

Next ==
    \/ Run
    \/ FetchDataDirect
    \/ FetchDataMCP
    \/ AnalyzeIssues
    \/ AnalyzePRs
    \/ SendIssueAlertDirect
    \/ SendPRNotificationDirect
    \/ SendIssueAlertMCP
    \/ SendPRNotificationMCP
    \/ UpdateState

Spec == Init /\ [][Next]_vars

\* run() called on the state create_initial_state builds: nothing sent yet
LiveInit == Init /\ state.sent_notifications = <<>>

\* run() is one synchronous invoke(): the runtime keeps executing the nodes it
\* has scheduled, and every call a node makes returns or raises
LiveSpec == LiveInit /\ [][Next]_vars /\ WF_vars(Next)

\* ------------------------------------------------------------- the drivers
\* the integer fields _validate_config tests with isinstance(..., int)
IntFields == {"issue_threshold_days", "check_interval_hours", "pr_lookback_hours"}

\* ConfigManager._validate_config: True iff no ValueError is raised
validate_config(cfg) ==
    /\ cfg.not_int \cap IntFields = {}
    /\ cfg.recipients # 0

\* load_config returns the configuration: ConfigManager.load_config validates
\* it, load_config of mcp_trial/main.py only parses it
config_accepted == IF variant = "direct" THEN validate_config(config) ELSE TRUE

\* contents config.yaml may have
ConfigChoices ==
    UNION { { ValidConfig(thr),
              [ValidConfig(thr) EXCEPT !.pr_lookback_hours = 0],
              [ValidConfig(thr) EXCEPT !.not_int = {"pr_lookback_hours"}],
              [ValidConfig(thr) EXCEPT !.recipients = 0] } : thr \in Thresholds }

\* the process has been started and main() has not run yet
DriverInit ==
    /\ variant \in Variants
    /\ config \in ConfigChoices
    /\ mode \in {"once", "scheduled"}
    /\ proc = "main"
    /\ exit_code = NoCode
    /\ report = NoReport
    /\ due = NoTime
    /\ state = InitialState(config, <<>>)
    /\ start = state
    /\ now = Now0
    /\ phase = "none"
    /\ active = {}
    /\ triggered = {}
    /\ github_session = FALSE
    /\ email_session = FALSE
    /\ source = NoSource
    /\ sink_calls = <<>>
    /\ trace = <<>>
    /\ error = "none"
    /\ pr_bodies = <<>>

BeginCycle_rehydrates ==
    /\ proc' = "cycle"
    /\ state' = InitialState(config, <<[kind |-> "issue_alert", at |-> 0]>>)
    /\ start' = state'
    /\ phase' = "START"
    /\ report' = NoReport
    /\ active' = {}
    /\ triggered' = {}
    /\ github_session' = FALSE
    /\ email_session' = FALSE
    /\ source' = NoSource
    /\ sink_calls' = <<>>
    /\ trace' = <<>>
    /\ error' = "none"
    /\ pr_bodies' = <<>>

\* run_monitoring_cycle up to the call of workflow.run: a new workflow and a
\* new initial state are built from the configuration
BeginCycle ==
    /\ proc' = "cycle"
    /\ state' = InitialState(config, <<>>)
    /\ start' = state'
    /\ phase' = "START"
    /\ report' = NoReport
    /\ active' = {}
    /\ triggered' = {}
    /\ github_session' = FALSE
    /\ email_session' = FALSE
    /\ source' = NoSource
    /\ sink_calls' = <<>>
    /\ trace' = <<>>
    /\ error' = "none"
    /\ pr_bodies' = <<>>

\* main(): --once calls run_monitoring_cycle, whose try block holds the
\* loading of the configuration; run_scheduled loads it outside any try, sets
\* the schedule and runs the initial cycle
Main ==
    /\ proc = "main"
    /\ IF config_accepted
       THEN /\ BeginCycle
            /\ due' = IF mode = "scheduled" /\ variant = "direct"
                      THEN now + config.check_interval_hours ELSE due
            /\ UNCHANGED <<now, exit_code>>
       ELSE /\ proc' = "exited"
            /\ exit_code' = IF mode = "once" THEN 0 ELSE 1
            /\ report' = IF mode = "once"
                         THEN [NoReport EXCEPT !.outcome = "error", !.cause = "load_config"]
                         ELSE report
            /\ UNCHANGED <<state, now, phase, active, triggered, github_session,
                           email_session, source, sink_calls, trace, error, start,
                           pr_bodies, due>>
    /\ UNCHANGED <<variant, config, mode>>

CycleReturns_error_stops_scheduler ==
    /\ proc = "cycle" /\ mode # "api"
    /\ phase \in {"END", "raised"}
    /\ report' = IF phase = "END"
                 THEN [outcome |-> "completed",
                       emails_sent |-> Len(state.sent_notifications),
                       cause |-> "none"]
                 ELSE [outcome |-> "error", emails_sent |-> NoCount, cause |-> error]
    /\ IF variant = "mcp" /\ phase = "END"
       THEN github_session' = FALSE /\ email_session' = FALSE
       ELSE UNCHANGED <<github_session, email_session>>
    /\ IF mode = "once" \/ phase = "raised"
       THEN proc' = "exited" /\ exit_code' = 0 /\ due' = due
       ELSE /\ proc' = "idle"
            /\ exit_code' = exit_code
            /\ due' = IF variant = "mcp" THEN now + config.check_interval_hours ELSE due
    /\ state' = InitialState(config, <<>>)
    /\ start' = state'
    /\ phase' = "none"
    /\ active' = {}
    /\ triggered' = {}
    /\ source' = NoSource
    /\ sink_calls' = <<>>
    /\ trace' = <<>>
    /\ error' = "none"
    /\ pr_bodies' = <<>>
    /\ UNCHANGED <<variant, now, config, mode>>

\* workflow.run returned or raised: run_monitoring_cycle prints the summary
\* (the MCP one then closes the sessions) or catches the exception, and
\* returns, dropping the workflow and the final state; run_once then returns
\* to main, run_scheduled goes on to its loop
CycleReturns ==
    /\ proc = "cycle" /\ mode # "api"
    /\ phase \in {"END", "raised"}
    /\ report' = IF phase = "END"
                 THEN [outcome |-> "completed",
                       emails_sent |-> Len(state.sent_notifications),
                       cause |-> "none"]
                 ELSE [outcome |-> "error", emails_sent |-> NoCount, cause |-> error]
    /\ IF variant = "mcp" /\ phase = "END"
       THEN github_session' = FALSE /\ email_session' = FALSE
       ELSE UNCHANGED <<github_session, email_session>>
    /\ IF mode = "once"
       THEN proc' = "exited" /\ exit_code' = 0 /\ due' = due
       ELSE /\ proc' = "idle"
            /\ exit_code' = exit_code
            /\ due' = IF variant = "mcp" THEN now + config.check_interval_hours ELSE due
    /\ state' = InitialState(config, <<>>)
    /\ start' = state'
    /\ phase' = "none"
    /\ active' = {}
    /\ triggered' = {}
    /\ source' = NoSource
    /\ sink_calls' = <<>>
    /\ trace' = <<>>
    /\ error' = "none"
    /\ pr_bodies' = <<>>
    /\ UNCHANGED <<variant, now, config, mode>>

\* the loop of run_scheduled sleeps until the next cycle is due and runs it
RunPending_overlapping ==
    /\ proc \in {"idle", "cycle"}
    /\ mode = "scheduled"
    /\ \E t \in Clock :
          /\ t >= due
          /\ now' = t
          /\ due' = IF variant = "direct" THEN t + config.check_interval_hours ELSE NoTime
    /\ BeginCycle
    /\ UNCHANGED <<variant, config, mode, exit_code>>

RunPending ==
    /\ proc = "idle"
    /\ \E t \in Clock :
          /\ t >= due
          /\ now' = t
          /\ due' = IF variant = "direct" THEN t + config.check_interval_hours ELSE NoTime
    /\ BeginCycle
    /\ UNCHANGED <<variant, config, mode, exit_code>>

\* a scheduled run_monitoring_cycle whose load_config raises (config.yaml
\* unreadable or, in the direct variant, no longer valid): the except clause
\* reports it and the cycle returns before a workflow is built
CycleLoadFails ==
    /\ proc = "idle"
    /\ \E t \in Clock :
          /\ t >= due
          /\ now' = t
          /\ due' = t + config.check_interval_hours
    /\ report' = [NoReport EXCEPT !.outcome = "error", !.cause = "load_config"]
    /\ UNCHANGED <<variant, state, phase, active, triggered, github_session,
                   email_session, source, sink_calls, trace, error, start,
                   pr_bodies, config, mode, proc, exit_code>>

\* KeyboardInterrupt in the loop of run_scheduled: break, main returns
Interrupt ==
    /\ proc = "idle"
    /\ proc' = "exited"
    /\ exit_code' = 0
    /\ UNCHANGED <<variant, state, now, phase, active, triggered, github_session,
                   email_session, source, sink_calls, trace, error, start,
                   pr_bodies, config, mode, report, due>>

DriverNext ==
    \/ Main
    \/ CycleReturns
    \/ RunPending
    \/ CycleLoadFails
    \/ Interrupt
    \/ Next

DriverSpec == DriverInit /\ [][DriverNext]_vars

\* ------------------------------------------------------------ observations
TraceNodes == { trace[i].node : i \in 1..Len(trace) }

\* the state a node of the trace was handed
Pre(i) == IF i = 1 THEN start ELSE trace[i - 1].post

Elems(seq) == { seq[i] : i \in 1..Len(seq) }

SendNodes == {"send_issue_alert", "send_pr_notification"}

\* a node was entered: it returned, or it raised
Entered(node) == node \in TraceNodes \/ error = node

Pending(node) == node \in active \cup triggered

DataSourceFailed ==
    source.issues \in {"raised", "failed"} \/ source.prs \in {"raised", "failed"}

SuccessfulCalls == SelectSeq(sink_calls, LAMBDA c : c.success)

\* ------------------------------------------------------------------ claims

\* C1: whenever the Data Source fails during fetch_data, in either variant,
\* run() raises before any analysis or send stage executes and
\* sent_notifications is as it was at the start of the cycle.
C1_FetchFailureIsFatal ==
    DataSourceFailed =>
        /\ phase = "raised"
        /\ TraceNodes = {}
        /\ sink_calls = <<>>
        /\ state.sent_notifications = start.sent_notifications

\* C2: a sink call that returns false appends nothing to sent_notifications,
\* and no send stage calls the sink twice in one cycle.
C2_FailedSendAppendsNothingNoRetry ==
    [][ sink_calls' # sink_calls =>
          LET call == sink_calls'[Len(sink_calls')]
          IN  /\ sink_calls' = Append(sink_calls, call)
              /\ \A i \in 1..Len(sink_calls) : sink_calls[i].kind # call.kind
              /\ ~call.success => state'.sent_notifications = state.sent_notifications
      ]_vars

C2_Witness ==
    /\ phase = "END"
    /\ \E i \in 1..Len(sink_calls) : ~sink_calls[i].success
    /\ state.sent_notifications = start.sent_notifications

\* C3: once a send stage is entered it returns normally whatever the delivery
\* attempt does: no exception leaves run() from a send stage.
C3_SendNeverAborts ==
    error \notin SendNodes

\* C4: analyze_issues selects a fetched issue iff at least threshold whole
\* days lie between its creation and the time of the analysis.
C4_StaleIffAgeAtLeastThreshold ==
    \A i \in 1..Len(trace) :
        trace[i].node = "analyze_issues" =>
            \A issue \in Elems(Pre(i).open_issues) :
                (issue \in Elems(trace[i].post.alert_issues))
                    <=> (trace[i].at - issue.created_at
                            >= Pre(i).issue_threshold_days * HoursPerDay)

\* an issue exactly threshold days old was selected and one exactly a day
\* younger was not
C4_Witness ==
    \E i \in 1..Len(trace) :
        /\ trace[i].node = "analyze_issues"
        /\ \E old, young \in Elems(Pre(i).open_issues) :
              /\ trace[i].at - old.created_at = Pre(i).issue_threshold_days * HoursPerDay
              /\ trace[i].at - young.created_at
                    = (Pre(i).issue_threshold_days - 1) * HoursPerDay
              /\ old \in Elems(trace[i].post.alert_issues)
              /\ young \notin Elems(trace[i].post.alert_issues)

\* C5: analyze_prs selects a fetched pull request iff merged_at or closed_at
\* is present; a pull request with neither is never selected.
C5_ReportableIffMergedOrClosed ==
    \A i \in 1..Len(trace) :
        trace[i].node = "analyze_prs" =>
            \A pr \in Elems(Pre(i).recent_prs) :
                (pr \in Elems(trace[i].post.notification_prs))
                    <=> (pr.merged_at # NoTime \/ pr.closed_at # NoTime)

\* an open pull request was fetched and left out, a closed one was selected
C5_Witness ==
    \E i \in 1..Len(trace) :
        /\ trace[i].node = "analyze_prs"
        /\ \E open, closed \in Elems(Pre(i).recent_prs) :
              /\ open.merged_at = NoTime /\ open.closed_at = NoTime
              /\ closed.merged_at = NoTime /\ closed.closed_at # NoTime
              /\ open \notin Elems(trace[i].post.notification_prs)
              /\ closed \in Elems(trace[i].post.notification_prs)

\* the state a node returned, for a node that has run exactly once so far
PostOf(node) == trace[CHOOSE i \in 1..Len(trace) : trace[i].node = node].post

\* the routing of one branch: the send node is entered or pending only if the
\* analysis set the flag; once the analysis has set the flag the send node is
\* routed to; once it has cleared the flag update_state is routed to instead
RoutedByFlag(analysis, flag, send) ==
    /\ (Entered(send) \/ Pending(send)) =>
          (analysis \in TraceNodes /\ PostOf(analysis)[flag])
    /\ (analysis \in TraceNodes /\ phase # "raised") =>
          IF PostOf(analysis)[flag]
          THEN Entered(send) \/ Pending(send)
          ELSE Entered("update_state") \/ Pending("update_state")
    /\ phase = "END" => (send \in TraceNodes <=> PostOf(analysis)[flag])

\* C6: send_issue_alert is executed iff analyze_issues set
\* should_send_issue_alert, send_pr_notification iff analyze_prs set
\* should_send_pr_notification; otherwise the branch goes to update_state.
C6_RoutingFollowsFlags ==
    /\ RoutedByFlag("analyze_issues", "should_send_issue_alert", "send_issue_alert")
    /\ RoutedByFlag("analyze_prs", "should_send_pr_notification", "send_pr_notification")

\* a cycle ended in which one branch sent and the other skipped
C6_Witness ==
    /\ phase = "END"
    /\ "send_issue_alert" \in TraceNodes
    /\ "send_pr_notification" \notin TraceNodes
    /\ PostOf("analyze_issues").should_send_issue_alert
    /\ ~PostOf("analyze_prs").should_send_pr_notification

\* nothing fetched is stale when analyze_issues evaluates it, and nothing
\* fetched is merged or closed
NothingToReport ==
    /\ "analyze_issues" \in TraceNodes
    /\ "analyze_prs" \in TraceNodes
    /\ LET i == CHOOSE k \in 1..Len(trace) : trace[k].node = "analyze_issues"
       IN  \A issue \in Elems(Pre(i).open_issues) :
              trace[i].at - issue.created_at < Pre(i).issue_threshold_days * HoursPerDay
    /\ LET j == CHOOSE k \in 1..Len(trace) : trace[k].node = "analyze_prs"
       IN  \A pr \in Elems(Pre(j).recent_prs) :
              pr.merged_at = NoTime /\ pr.closed_at = NoTime

\* C7: in a cycle with no stale issue and no reportable pull request neither
\* send stage is executed, the sink is never called, and at END
\* sent_notifications equals its value at the start of the cycle.
C7_NothingToReportSendsNothing ==
    NothingToReport =>
        /\ ~Entered("send_issue_alert") /\ ~Pending("send_issue_alert")
        /\ ~Entered("send_pr_notification") /\ ~Pending("send_pr_notification")
        /\ sink_calls = <<>>
        /\ phase = "END" => state.sent_notifications = start.sent_notifications

\* such a cycle ended, with issues and pull requests fetched and with history
C7_Witness ==
    /\ phase = "END"
    /\ NothingToReport
    /\ state.open_issues # <<>>
    /\ state.recent_prs # <<>>
    /\ start.sent_notifications # <<>>

\* C8: every successful send appends exactly one identifier, of its own kind,
\* at the end of sent_notifications: the entries gained in the cycle are the
\* successful sink calls, in order.
C8_OneIdentifierPerSuccessfulSend ==
    state.sent_notifications =
        start.sent_notifications
            \o [i \in 1..Len(SuccessfulCalls) |->
                    [kind |-> SuccessfulCalls[i].kind, at |-> SuccessfulCalls[i].at]]

\* a cycle ended with both sends successful
C8_Witness ==
    /\ phase = "END"
    /\ Len(SuccessfulCalls) = 2
    /\ Len(state.sent_notifications) = Len(start.sent_notifications) + 2

\* C9: from every starting state, fresh or rehydrated, a cycle that produced
\* no notification ends with sent_notifications and last_email_sent equal to
\* their values at the start of the cycle.
C9_NoNotificationLeavesMemoryUnchanged ==
    (phase = "END" /\ SuccessfulCalls = <<>>) =>
        /\ state.sent_notifications = start.sent_notifications
        /\ state.last_email_sent = start.last_email_sent

\* C10: if a send succeeded in the cycle, then at END last_email_sent was set
\* by update_state to a time not earlier than that send.
C10_LastEmailSentAfterSuccessfulSend ==
    (phase = "END" /\ SuccessfulCalls # <<>>) =>
        /\ \A i \in 1..Len(SuccessfulCalls) :
              state.last_email_sent >= SuccessfulCalls[i].at
        /\ \E k \in 1..Len(trace) :
              /\ trace[k].node = "update_state"
              /\ trace[k].at = state.last_email_sent

\* a rehydrated cycle ended after a successful send that came after a tick
C10_Witness ==
    /\ phase = "END"
    /\ start.last_email_sent # NoTime
    /\ \E i \in 1..Len(SuccessfulCalls) : SuccessfulCalls[i].at > Now0

\* C11: whenever a cycle reaches END, whichever branches were taken and in
\* whatever order their stages ran, both decision flags are false and both
\* selected lists are empty.
C11_FlagsAndSelectionsClearedAtEnd ==
    phase = "END" =>
        /\ ~state.should_send_issue_alert
        /\ ~state.should_send_pr_notification
        /\ state.alert_issues = <<>>
        /\ state.notification_prs = <<>>

\* a cycle ended in which both analyses had set their flag and selected
\* something, and both send stages ran
C11_Witness ==
    /\ phase = "END"
    /\ PostOf("analyze_issues").should_send_issue_alert
    /\ PostOf("analyze_issues").alert_issues # <<>>
    /\ PostOf("analyze_prs").should_send_pr_notification
    /\ PostOf("analyze_prs").notification_prs # <<>>
    /\ SendNodes \subseteq TraceNodes

\* the positions of the trace at which node ran
RunsOf(node) == { i \in 1..Len(trace) : trace[i].node = node }

\* C12: update_state is executed exactly once per cycle, and only after both
\* branches have completed: it never runs while a send stage is still pending.
C12_UpdateStateOnceAfterBothBranches ==
    /\ Cardinality(RunsOf("update_state")) <= 1
    /\ phase = "END" => Cardinality(RunsOf("update_state")) = 1
    /\ "update_state" \in TraceNodes =>
          \A send \in SendNodes : ~Pending(send)

\* exactly one of the two fetch calls failed
PartialData ==
    (source.issues \in {"raised", "failed"}) # (source.prs \in {"raised", "failed"})

\* C13: in a cycle where one of the two fetch calls fails and the other
\* succeeds, neither send stage is executed and the sink is not called.
C13_NoNotificationFromPartialData ==
    PartialData =>
        /\ \A send \in SendNodes : ~Entered(send) /\ ~Pending(send)
        /\ sink_calls = <<>>

\* the send stage that calls the sink with a notification of this kind
SendNodeOf(kind) ==
    IF kind = "issue_alert" THEN "send_issue_alert" ELSE "send_pr_notification"

\* C16: the Notification Sink reports every delivery failure as a false
\* return value and never as an exception raised to the calling stage.
C16_DeliveryFailureReturnsFalse ==
    \A i \in 1..Len(sink_calls) :
        sink_calls[i].delivery # "sent" =>
            /\ sink_calls[i].result = "False"
            /\ error # SendNodeOf(sink_calls[i].kind)

\* a delivery failed and the send stage that called the sink returned
C16_Witness ==
    \E i \in 1..Len(sink_calls) :
        /\ sink_calls[i].delivery = "failed"
        /\ sink_calls[i].kind = "issue_alert"
        /\ "send_issue_alert" \in TraceNodes

\* the merge time of a pull request or, when it was never merged, its close
\* time
EventTime(pr) == IF pr.merged_at # NoTime THEN pr.merged_at ELSE pr.closed_at

\* C17: get_recent_prs returns a pull request iff its merge time, or (when
\* never merged) its close time, is present and not earlier than the time of
\* the call minus the lookback; an open pull request, or one whose event lies
\* before the window, is never returned.
C17_RecentIffEventInsideLookback ==
    (variant = "direct" /\ source.prs = "ok") =>
        /\ Elems(trace[1].post.recent_prs) \subseteq Elems(source.pulls)
        /\ \A pr \in Elems(source.pulls) :
              (pr \in Elems(trace[1].post.recent_prs))
                  <=> /\ EventTime(pr) # NoTime
                      /\ EventTime(pr) >= source.at - DefaultLookback

\* a pull request closed exactly lookback hours before the call was returned
\* and an open one was not
C17_Witness ==
    /\ variant = "direct" /\ source.prs = "ok"
    /\ \E pr, open \in Elems(source.pulls) :
          /\ pr.merged_at = NoTime
          /\ pr.closed_at = source.at - DefaultLookback
          /\ pr \in Elems(trace[1].post.recent_prs)
          /\ EventTime(open) = NoTime
          /\ open \notin Elems(trace[1].post.recent_prs)

\* C19: in the pull request notification every pull request gets exactly one
\* status: "merged" if merged_at is present (whether or not closed_at is),
\* "closed" if closed_at is present and merged_at is absent; none is reported
\* as open.
C19_StatusMergedOrClosed ==
    \A b \in 1..Len(pr_bodies) :
        LET prs == pr_bodies[b].prs
            lines == pr_bodies[b].lines
        IN  /\ Len(lines) = Len(prs)
            /\ \A i \in 1..Len(prs) :
                  /\ lines[i].number = prs[i].number
                  /\ prs[i].merged_at # NoTime => lines[i].status = "merged"
                  /\ (prs[i].merged_at = NoTime /\ prs[i].closed_at # NoTime)
                        => lines[i].status = "closed"
                  /\ lines[i].status # "open"

\* a notification was built for a merged pull request (closed_at present as
\* well) and one closed without a merge
C19_Witness ==
    \E b \in 1..Len(pr_bodies) :
        \E i, j \in 1..Len(pr_bodies[b].prs) :
            /\ pr_bodies[b].prs[i].merged_at # NoTime
            /\ pr_bodies[b].prs[i].closed_at # NoTime
            /\ pr_bodies[b].lines[i].status = "merged"
            /\ pr_bodies[b].prs[j].merged_at = NoTime
            /\ pr_bodies[b].lines[j].status = "closed"

\* analyze_issues has evaluated a fetched issue whose age met the threshold
StaleIssueFetched ==
    /\ "analyze_issues" \in TraceNodes
    /\ LET i == CHOOSE k \in 1..Len(trace) : trace[k].node = "analyze_issues"
       IN  \E issue \in Elems(Pre(i).open_issues) :
              trace[i].at - issue.created_at >= Pre(i).issue_threshold_days * HoursPerDay

\* C18: in every cycle in which a fetched issue meets the threshold,
\* send_issue_alert is executed and the sink is called, whatever
\* sent_notifications already holds from earlier cycles.
C18_RepeatedAlertsNotSuppressed ==
    StaleIssueFetched =>
        /\ phase # "raised" =>
              Entered("send_issue_alert") \/ Pending("send_issue_alert")
        /\ phase = "END" =>
              /\ "send_issue_alert" \in TraceNodes
              /\ \E c \in 1..Len(sink_calls) : sink_calls[c].kind = "issue_alert"

\* a cycle that started with an issue alert already in sent_notifications
\* ended after alerting again
C18_Witness ==
    /\ phase = "END"
    /\ StaleIssueFetched
    /\ \E h \in 1..Len(start.sent_notifications) :
          start.sent_notifications[h].kind = "issue_alert"
    /\ \E c \in 1..Len(sink_calls) :
          sink_calls[c].kind = "issue_alert" /\ sink_calls[c].success

\* C20: at the end of every cycle all per-cycle scratch fields are back at
\* their defaults, the fetched issues and fetched pull requests included.
C20_ScratchFieldsResetAtEnd ==
    phase = "END" =>
        /\ ~state.should_send_issue_alert
        /\ ~state.should_send_pr_notification
        /\ state.alert_issues = <<>>
        /\ state.notification_prs = <<>>
        /\ state.open_issues = <<>>
        /\ state.recent_prs = <<>>

\* C14: started with --once, the process exits with code 0 when the cycle
\* completed and with a non-zero code when the cycle aborted on a fetch
\* failure.
C14_ExitCodeTellsFetchFailure ==
    (proc = "exited" /\ mode = "once") =>
        /\ report.outcome = "completed" => exit_code = 0
        /\ (report.outcome = "error" /\ report.cause = "fetch_data") => exit_code # 0

\* every configured number is a positive integer and there is a recipient
WellFormed(cfg) ==
    /\ cfg.not_int \cap IntFields = {}
    /\ cfg.issue_threshold_days > 0
    /\ cfg.check_interval_hours > 0
    /\ cfg.pr_lookback_hours > 0
    /\ cfg.recipients > 0

\* C15: no workflow is constructed from a configuration whose threshold,
\* interval or lookback is not a positive integer or whose recipient list is
\* empty: loading the configuration rejects it first.
C15_NoWorkflowFromInvalidConfig ==
    proc = "cycle" => WellFormed(config)

AnalysisNodes == {"analyze_issues", "analyze_prs"}

\* C21: fetch_data has finished writing both fetched collections before
\* analyze_issues or analyze_prs runs, and both analysis stages have finished
\* before update_state first executes.
C21_FetchThenAnalysesThenUpdate ==
    /\ \A i \in 1..Len(trace) :
          /\ trace[i].node \in AnalysisNodes =>
                /\ trace[1].node = "fetch_data"
                /\ Pre(i).open_issues = trace[1].post.open_issues
                /\ Pre(i).recent_prs = trace[1].post.recent_prs
          /\ trace[i].node = "update_state" =>
                \A a \in AnalysisNodes : \E j \in 1..(i - 1) : trace[j].node = a
    /\ \A n \in Nodes \ {"fetch_data"} :
          Pending(n) => (trace # <<>> /\ trace[1].node = "fetch_data")
    /\ "update_state" \in active => AnalysisNodes \subseteq TraceNodes

\* update_state has run in a cycle that fetched issues and pull requests and
\* in which one branch skipped its send stage
C21_Witness ==
    /\ "update_state" \in TraceNodes
    /\ trace[1].post.open_issues # <<>>
    /\ trace[1].post.recent_prs # <<>>
    /\ "send_issue_alert" \notin TraceNodes
    /\ ~Pending("send_issue_alert")

\* C22: the list a send stage hands to the sink is exactly the list its
\* analysis stage selected in the same cycle, full and non-empty, under every
\* interleaving of the two branches, also when the other branch has already
\* reached update_state.
C22_SendHandsOverTheSelection ==
    \A c \in 1..Len(sink_calls) :
        /\ sink_calls[c].items # <<>>
        /\ sink_calls[c].kind = "issue_alert" =>
              sink_calls[c].items = PostOf("analyze_issues").alert_issues
        /\ sink_calls[c].kind = "pr_notification" =>
              sink_calls[c].items = PostOf("analyze_prs").notification_prs

\* what the two analyses select from what fetch_data returned, whichever of
\* them runs first: the issues at least threshold days old at time at, and the
\* pull requests merged or closed
StaleFetched(at) ==
    SelectSeq(trace[1].post.open_issues,
        LAMBDA issue : at - issue.created_at >= start.issue_threshold_days * HoursPerDay)

ReportableFetched ==
    SelectSeq(trace[1].post.recent_prs,
        LAMBDA pr : pr.merged_at # NoTime \/ pr.closed_at # NoTime)

\* C23: analyze_issues writes only the alert list and its flag, analyze_prs
\* only the notification list and its flag, and in either order they yield
\* the same four values from the same fetched data.
C23_AnalysesCommute ==
    \A i \in 1..Len(trace) :
        /\ trace[i].node = "analyze_issues" =>
              /\ trace[i].post.alert_issues = StaleFetched(trace[i].at)
              /\ trace[i].post.should_send_issue_alert = (StaleFetched(trace[i].at) # <<>>)
              /\ trace[i].post.notification_prs = Pre(i).notification_prs
              /\ trace[i].post.should_send_pr_notification
                    = Pre(i).should_send_pr_notification
        /\ trace[i].node = "analyze_prs" =>
              /\ trace[i].post.notification_prs = ReportableFetched
              /\ trace[i].post.should_send_pr_notification = (ReportableFetched # <<>>)
              /\ trace[i].post.alert_issues = Pre(i).alert_issues
              /\ trace[i].post.should_send_issue_alert = Pre(i).should_send_issue_alert

\* analyze_prs ran after analyze_issues had selected an issue, and selected a
\* pull request itself
C23_Witness ==
    /\ Len(trace) >= 3
    /\ trace[2].node = "analyze_issues"
    /\ trace[3].node = "analyze_prs"
    /\ trace[3].post.alert_issues # <<>>
    /\ trace[3].post.should_send_issue_alert
    /\ trace[3].post.notification_prs # <<>>

\* the two states agree on the flags, the selected lists, sent_notifications
\* and on whether last_email_sent is set
SameAfterUpdate(a, b) ==
    /\ a.should_send_issue_alert = b.should_send_issue_alert
    /\ a.should_send_pr_notification = b.should_send_pr_notification
    /\ a.alert_issues = b.alert_issues
    /\ a.notification_prs = b.notification_prs
    /\ a.sent_notifications = b.sent_notifications
    /\ (a.last_email_sent = NoTime) <=> (b.last_email_sent = NoTime)

\* C24: update_state is idempotent: from any state, executing it twice in a
\* row leaves the same flags, selected lists, sent_notifications and set/unset
\* status of last_email_sent as executing it once.
C24_UpdateStateIdempotent ==
    /\ \A t1 \in Clock : \A t2 \in t1 .. (Now0 + MaxTicks) :
          SameAfterUpdate(update_state_node(state, t1),
                          update_state_node(update_state_node(state, t1), t2))
    /\ \A k \in 1..(Len(trace) - 1) :
          (trace[k].node = "update_state" /\ trace[k + 1].node = "update_state")
              => SameAfterUpdate(trace[k].post, trace[k + 1].post)

\* update_state ran twice in a row, the first time on a state with a flag
\* set, a selection and a notification sent in this cycle
C24_Witness ==
    \E k \in 2..(Len(trace) - 1) :
        /\ trace[k].node = "update_state"
        /\ trace[k + 1].node = "update_state"
        /\ Pre(k).should_send_issue_alert
        /\ Pre(k).alert_issues # <<>>
        /\ Pre(k).sent_notifications # start.sent_notifications
        /\ Pre(k).last_email_sent = NoTime

\* C25: immediately after each analysis stage its flag is true iff its
\* selected list is non-empty.
C25_FlagIffSelectionNonEmpty ==
    \A i \in 1..Len(trace) :
        /\ trace[i].node = "analyze_issues" =>
              (trace[i].post.should_send_issue_alert
                  <=> trace[i].post.alert_issues # <<>>)
        /\ trace[i].node = "analyze_prs" =>
              (trace[i].post.should_send_pr_notification
                  <=> trace[i].post.notification_prs # <<>>)

\* one analysis selected exactly one element and set its flag, the other
\* selected nothing from a non-empty collection and left its flag false
C25_Witness ==
    /\ AnalysisNodes \subseteq TraceNodes
    /\ Len(PostOf("analyze_issues").alert_issues) = 1
    /\ PostOf("analyze_issues").should_send_issue_alert
    /\ trace[1].post.recent_prs # <<>>
    /\ PostOf("analyze_prs").notification_prs = <<>>
    /\ ~PostOf("analyze_prs").should_send_pr_notification

\* a is b with some elements left out: same order, nothing added or repeated
IsSubsequence(a, b) ==
    \E f \in [1..Len(a) -> 1..Len(b)] :
        /\ \A i \in 1..Len(a) : a[i] = b[f[i]]
        /\ \A i, j \in 1..Len(a) : i < j => f[i] < f[j]

\* C26: the alert-issues list is a subsequence of the fetched issues and the
\* notification-PRs list a subsequence of the fetched pull requests, both in
\* fetch order.
C26_SelectionIsSubsequence ==
    \A i \in 1..Len(trace) :
        /\ trace[i].node = "analyze_issues" =>
              IsSubsequence(trace[i].post.alert_issues, Pre(i).open_issues)
        /\ trace[i].node = "analyze_prs" =>
              IsSubsequence(trace[i].post.notification_prs, Pre(i).recent_prs)

\* two issues were selected, and one pull request out of two, the second
C26_Witness ==
    /\ AnalysisNodes \subseteq TraceNodes
    /\ Len(PostOf("analyze_issues").alert_issues) = 2
    /\ Len(trace[1].post.recent_prs) = 2
    /\ PostOf("analyze_prs").notification_prs = <<trace[1].post.recent_prs[2]>>

\* the identifiers sent_notifications gained in this cycle
Gained ==
    SubSeq(state.sent_notifications,
           Len(start.sent_notifications) + 1, Len(state.sent_notifications))

CallsOfKind(kind) == { c \in 1..Len(sink_calls) : sink_calls[c].kind = kind }

\* C27: no stage retries: in one cycle fetch_data asks the Data Source once
\* at most, each send stage runs and calls the sink at most once, and
\* sent_notifications gains at most two entries, at most one of each kind.
C27_NoStageRetries ==
    /\ Cardinality(RunsOf("fetch_data")) <= 1
    /\ \A send \in SendNodes : Cardinality(RunsOf(send)) <= 1
    /\ \A kind \in {"issue_alert", "pr_notification"} :
          /\ Cardinality(CallsOfKind(kind)) <= 1
          /\ Cardinality({ g \in 1..Len(Gained) : Gained[g].kind = kind }) <= 1
    /\ Len(sink_calls) <= 2
    /\ Len(Gained) <= 2

\* a cycle ended in which one delivery failed and the other went through: the
\* failed one was not repeated
C27_Witness ==
    /\ phase = "END"
    /\ Len(sink_calls) = 2
    /\ \E c \in 1..2 : sink_calls[c].delivery = "failed"
    /\ Len(Gained) = 1

IsPrefix(a, b) == Len(a) <= Len(b) /\ SubSeq(b, 1, Len(a)) = a

\* C28: sent_notifications is append-only across the stages: after every
\* stage the value before it is a prefix of the value after it, and
\* fetch_data, analyze_issues, analyze_prs and update_state leave it
\* unchanged.
C28_SentNotificationsAppendOnly ==
    /\ \A i \in 1..Len(trace) :
          /\ IsPrefix(Pre(i).sent_notifications, trace[i].post.sent_notifications)
          /\ trace[i].node \notin SendNodes =>
                trace[i].post.sent_notifications = Pre(i).sent_notifications
    /\ IsPrefix(start.sent_notifications, state.sent_notifications)
    /\ trace # <<>> => state = trace[Len(trace)].post

\* a cycle that started with a notification in its history ended after two
\* more were appended behind it
C28_Witness ==
    /\ phase = "END"
    /\ start.sent_notifications # <<>>
    /\ Len(state.sent_notifications) = Len(start.sent_notifications) + 2
    /\ state.sent_notifications[1] = start.sent_notifications[1]

\* the identity and configuration fields of a state
Identity(st) ==
    <<st.repo_owner, st.repo_name, st.issue_threshold_days, st.email_recipients>>

\* C29: no stage changes the repository owner, repository name, issue-age
\* threshold or recipient list: their values at END are those at START.
C29_IdentityAndConfigUnchanged ==
    /\ \A i \in 1..Len(trace) : Identity(trace[i].post) = Identity(start)
    /\ Identity(state) = Identity(start)

\* a cycle ended in which all six stages ran
C29_Witness ==
    /\ phase = "END"
    /\ TraceNodes = Nodes
    /\ state.sent_notifications # start.sent_notifications

\* a cycle holds a state: its workflow has been built and has not returned
CycleInProgress == phase \in {"START", "running", "END", "raised"}

\* C30: in single-shot and in scheduled mode a new cycle starts only after
\* the previous one has reached END or aborted and has returned: no two
\* cycles hold a state at the same time.
C30_CyclesNeverOverlap ==
    [][ phase' = "START" =>
            /\ ~CycleInProgress
            /\ proc \in {"main", "idle"}
            /\ active = {} /\ triggered = {}
            /\ proc = "idle" => report.outcome \in {"completed", "error"}
      ]_vars

\* the second cycle of a scheduled process is running
C30_Witness ==
    /\ mode = "scheduled"
    /\ variant = "direct"
    /\ proc = "cycle"
    /\ phase = "running"
    /\ due = Now0 + 2 * config.check_interval_hours

\* the most stage runs of one cycle: all six stages once, or five of them
\* with update_state once more when exactly one branch sends
MaxRuns == Cardinality(Nodes)

\* C31: every cycle terminates: the cycle a behaviour starts with eventually
\* reaches END or aborts with an exception, and on the way no stage runs more
\* than twice and the cycle executes at most six stage runs.
C31_EveryCycleTerminates ==
    /\ <>(phase \in {"END", "raised"})
    /\ [](Len(trace) <= MaxRuns /\ \A n \in Nodes : Cardinality(RunsOf(n)) <= 2)

\* a cycle ended after six stage runs, update_state twice
C31_Witness ==
    /\ phase = "END"
    /\ Len(trace) = MaxRuns
    /\ Cardinality(RunsOf("update_state")) = 2

\* what an analysis selects from the fetched data, by the kind of message it
\* feeds: a function of the fetched lists, the threshold and the clock reading
\* of analyze_issues, not of the order in which the stages ran
SelectedFor(kind) ==
    IF kind = "issue_alert"
    THEN StaleFetched(trace[CHOOSE i \in RunsOf("analyze_issues") : TRUE].at)
    ELSE ReportableFetched

Kinds == {"issue_alert", "pr_notification"}

\* the kinds whose selection is non-empty and whose delivery the sink accepted
DeliveredKinds ==
    { kind \in Kinds :
        /\ SelectedFor(kind) # <<>>
        /\ \E c \in CallsOfKind(kind) : sink_calls[c].delivery = "sent" }

\* C32: the state at END does not depend on how the branches were
\* interleaved: it is determined by the fetched data, the threshold, the
\* history the cycle started with and the sink's outcomes. Both flags are
\* false, both selected lists empty, the kinds sent_notifications gained are
\* those with a non-empty selection and an accepted delivery, and
\* last_email_sent is set iff it was set at the start or sent_notifications
\* is non-empty.
C32_EndStateIndependentOfSchedule ==
    phase = "END" =>
        /\ ~state.should_send_issue_alert
        /\ ~state.should_send_pr_notification
        /\ state.alert_issues = <<>>
        /\ state.notification_prs = <<>>
        /\ \A kind \in Kinds : (SelectedFor(kind) # <<>>) <=> (CallsOfKind(kind) # {})
        /\ { Gained[g].kind : g \in 1..Len(Gained) } = DeliveredKinds
        /\ (state.last_email_sent # NoTime)
              <=> (start.last_email_sent # NoTime \/ state.sent_notifications # <<>>)

\* a fresh cycle ended in which update_state ran before the only send of its
\* superstep, and the send was accepted
C32_Witness ==
    /\ phase = "END"
    /\ start.sent_notifications = <<>>
    /\ Len(trace) = MaxRuns
    /\ trace[4].node = "update_state"
    /\ trace[5].node \in SendNodes
    /\ Len(Gained) = 1
    /\ state.last_email_sent # NoTime

\* C33: in the MCP variant every session opened for a cycle is closed by the
\* end of that cycle: once run_monitoring_cycle has returned, whether the
\* cycle completed or aborted, neither the GitHub nor the email session is
\* still connected.
C33_SessionsClosedAfterCycle ==
    (variant = "mcp" /\ proc \in {"idle", "exited"}) =>
        (~github_session /\ ~email_session)

\* C34: in scheduled mode a failed cycle never stops the scheduler: the step
\* in which a cycle reports an exception (from loading the configuration,
\* from connecting, from fetch or from a send stage) leaves the process in
\* its loop, not exited and with the next cycle scheduled, and from the loop
\* the next cycle can be started as soon as it is due.
C34_FailedCycleKeepsScheduler ==
    /\ [][ (mode = "scheduled" /\ proc # "main"
              /\ report' # report /\ report'.outcome = "error")
            => /\ proc' = "idle"
               /\ exit_code' = NoCode
               /\ due' # NoTime
               /\ due' <= now' + config.check_interval_hours
         ]_vars
    /\ []( (mode = "scheduled" /\ proc = "idle" /\ due <= Now0 + MaxTicks)
            => ENABLED RunPending )

\* a scheduled cycle was aborted by a send stage that raised; the process is
\* in its loop and the next cycle is due within the time explored
C34_Witness ==
    /\ mode = "scheduled"
    /\ proc = "idle"
    /\ report.outcome = "error"
    /\ report.cause \in SendNodes
    /\ exit_code = NoCode
    /\ due <= Now0 + MaxTicks

\* C35: the cycle driver carries no memory between cycles: every cycle
\* starts from a freshly constructed state with sent_notifications empty and
\* last_email_sent unset, and the count a completed cycle reports as emails
\* sent is between 0 and 2 and is the number of sends the sink accepted in
\* that cycle.
C35_DriverCarriesNoMemory ==
    /\ [][ phase' = "START" =>
                /\ state'.sent_notifications = <<>>
                /\ state'.last_email_sent = NoTime
                /\ start' = state'
                /\ sink_calls' = <<>> /\ trace' = <<>>
         ]_vars
    /\ [][ (mode # "api" /\ report' # report /\ report'.outcome = "completed") =>
                /\ report'.emails_sent \in 0..2
                /\ report'.emails_sent = Len(SuccessfulCalls)
         ]_vars

\* the second cycle of a scheduled process has reported its one email sent
C35_Witness ==
    /\ mode = "scheduled"
    /\ variant = "direct"
    /\ proc = "idle"
    /\ report.outcome = "completed"
    /\ report.emails_sent = 1
    /\ due = Now0 + 2 * config.check_interval_hours

\* C36: in the direct variant analyze_prs filters nothing out: every pull
\* request fetch_data stored has merged_at or closed_at present, the
\* notification list after analyze_prs equals the fetched list, and the flag
\* is true iff the fetch returned at least one pull request.
C36_DirectAnalyzePRsFiltersNothing ==
    variant = "direct" =>
        \A i \in 1..Len(trace) :
            /\ trace[i].node = "fetch_data" =>
                  \A pr \in Elems(trace[i].post.recent_prs) :
                      pr.merged_at # NoTime \/ pr.closed_at # NoTime
            /\ trace[i].node = "analyze_prs" =>
                  /\ trace[i].post.notification_prs = trace[1].post.recent_prs
                  /\ trace[i].post.notification_prs = Pre(i).recent_prs
                  /\ trace[i].post.should_send_pr_notification
                        <=> trace[1].post.recent_prs # <<>>

\* the repository held an open pull request next to a merged and a closed
\* one; get_recent_prs returned one of them and analyze_prs kept it
C36_Witness ==
    /\ variant = "direct"
    /\ "analyze_prs" \in TraceNodes
    /\ \E p \in Elems(source.pulls) : p.merged_at = NoTime /\ p.closed_at = NoTime
    /\ Len(source.pulls) > Len(trace[1].post.recent_prs)
    /\ Len(PostOf("analyze_prs").notification_prs) = 1
    /\ PostOf("analyze_prs").should_send_pr_notification

\* the send stage fed by an analysis stage, and the flag that routes to it
RouteOf(node) ==
    IF node = "analyze_issues"
    THEN [send |-> "send_issue_alert", flag |-> "should_send_issue_alert"]
    ELSE [send |-> "send_pr_notification", flag |-> "should_send_pr_notification"]

\* C37: the direct and the MCP workflow make the same decisions: in either
\* variant the alert list, the notification list and the flags are one and
\* the same function of the fetched issues, the fetched pull requests, the
\* threshold and the time of the analysis; an analysis is followed by its
\* send stage iff it set its flag, else by update_state; and update_state
\* has one effect, clearing flags and lists and stamping last_email_sent
\* when sent_notifications is non-empty.
C37_VariantsDecideAlike ==
    \A i \in 1..Len(trace) :
        /\ trace[i].node = "analyze_issues" =>
              /\ trace[i].post.alert_issues = StaleFetched(trace[i].at)
              /\ trace[i].post.should_send_issue_alert = (StaleFetched(trace[i].at) # <<>>)
        /\ trace[i].node = "analyze_prs" =>
              /\ trace[i].post.notification_prs = ReportableFetched
              /\ trace[i].post.should_send_pr_notification = (ReportableFetched # <<>>)
        /\ trace[i].node \in AnalysisNodes =>
              LET send == RouteOf(trace[i].node).send
                  flag == trace[i].post[RouteOf(trace[i].node).flag]
              IN  /\ ~flag => (~Entered(send) /\ ~Pending(send))
                  /\ (flag /\ phase # "raised") => (Entered(send) \/ Pending(send))
                  /\ (~flag /\ phase # "raised") =>
                        ("update_state" \in TraceNodes \/ Pending("update_state"))
        /\ trace[i].node = "update_state" =>
              trace[i].post =
                  [Pre(i) EXCEPT !.should_send_issue_alert = FALSE,
                                 !.should_send_pr_notification = FALSE,
                                 !.alert_issues = <<>>,
                                 !.notification_prs = <<>>,
                                 !.last_email_sent =
                                     IF Pre(i).sent_notifications # <<>>
                                     THEN trace[i].at ELSE @]

\* the MCP workflow selected a stale issue and left an open pull request out
\* of the notification list, which kept another one
C37_Witness ==
    /\ variant = "mcp"
    /\ AnalysisNodes \subseteq TraceNodes
    /\ PostOf("analyze_issues").alert_issues # <<>>
    /\ \E p \in Elems(trace[1].post.recent_prs) :
          p.merged_at = NoTime /\ p.closed_at = NoTime
    /\ Len(PostOf("analyze_prs").notification_prs) = 1
    /\ "send_issue_alert" \in active \cup triggered

====
